---- MODULE Spec2Model ----
(***************************************************************************)
(* Model of markovchain's JSON storage backend                             *)
(* (src/markovchain/storage/json.py).                                      *)
(*                                                                         *)
(* Representation of Python values:                                       *)
(*   - a str is a sequence of characters (one-character TLA+ strings, and *)
(*     NUL for "\x00"); dataset names are TLA+ strings, joined with \o;    *)
(*   - the token None is the value None below, which is no str;            *)
(*   - a Counter (token -> count) is a function;                           *)
(*   - a dataset (state key -> Counter) is a sequence of entries           *)
(*     [k |-> key, v |-> Counter] in dict insertion order, because         *)
(*     do_replace_state_separator depends on that order;                   *)
(*   - nodes / backward data (dataset name -> dataset) is a function;      *)
(*   - an optional value (self.backward) is <<>> for None and <<x>> for x; *)
(*   - values whose Python type is inspected or mixed in one container     *)
(*     (JSON values, link tuples, deque elements) are tagged records       *)
(*     [type |-> ..., val |-> ...].                                        *)
(***************************************************************************)
EXTENDS Integers, Sequences, FiniteSets, TLC

VARIABLES
    nodes,            \* self.nodes
    backward,         \* self.backward, optional
    settings,         \* self.settings
    state_separator,  \* the configured state separator (a str)
    ingested,         \* history: bag of the triples add_links has ingested
    pc,               \* "idle", or "add_links" inside the loop of add_links
    dataset_prefix,   \* the dataset_prefix argument of the running add_links
    op,               \* name of the last operation that ran
    args,             \* its arguments
    ret,              \* its return value
    err,              \* the exception it raised, or "none"
    window,           \* the deque made by get_state
    maxlen            \* its maxlen

vars == <<nodes, backward, settings, state_separator, ingested, pc,
          dataset_prefix, op, args, ret, err, window, maxlen>>

storeVars == <<nodes, backward, settings, state_separator>>
windowVars == <<window, maxlen>>

-----------------------------------------------------------------------------
(* Bounds *)

MaxLinks == 2       \* triples ingested in one behaviour
MaxSize == 3        \* largest window size
MaxPrior == 3       \* longest list of prior tokens given to get_state
MaxCount == 2       \* largest count in a wire encoding

-----------------------------------------------------------------------------
(* Python values *)

NUL == "NUL"
NONE_VALUE == <<NUL, NUL>>
None == <<"None">>
NoReturn == <<>>

PyInt(n) == [type |-> "int", val |-> n]
PyStr(s) == [type |-> "str", val |-> s]
PyNone == [type |-> "NoneType", val |-> None]
PyList(l) == [type |-> "list", val |-> l]
PyDict(d) == [type |-> "dict", val |-> d]
PyBool(b) == [type |-> "bool", val |-> b]
PyToken(t) == IF t = None THEN PyNone ELSE PyStr(t)

EmptyDict == <<>>
EmptyCounter == <<>>

(* ordered dict helpers *)
Keys(d) == {d[i].k : i \in DOMAIN d}
Get(d, k) == d[CHOOSE i \in DOMAIN d : d[i].k = k].v
Put(d, k, v) ==
    IF k \in Keys(d)
    THEN [i \in DOMAIN d |-> IF d[i].k = k THEN [k |-> k, v |-> v] ELSE d[i]]
    ELSE Append(d, [k |-> k, v |-> v])
AsMap(d) == [k \in Keys(d) |-> Get(d, k)]

RECURSIVE DictOf(_)
DictOf(pairs) ==
    IF pairs = <<>> THEN EmptyDict
    ELSE LET n == Len(pairs)
         IN Put(DictOf(SubSeq(pairs, 1, n - 1)), pairs[n].k, pairs[n].v)

RECURSIVE SumOver(_, _)
SumOver(f, S) ==
    IF S = {} THEN 0
    ELSE LET x == CHOOSE y \in S : TRUE IN f[x] + SumOver(f, S \ {x})
Total(f) == SumOver(f, DOMAIN f)

-----------------------------------------------------------------------------
(* Wire codec *)

dehydrate_key(key) == IF key = None THEN NONE_VALUE ELSE key

(* mutant: the sentinel is kept *)
hydrate_key_kept(key) == key

hydrate_key(key) == IF key = NONE_VALUE THEN None ELSE key

(* {hydrate_key(key): value for (key, value) in node_list.items()} *)
hydrate_dict(node_list) ==
    [k2 \in {hydrate_key(k) : k \in DOMAIN node_list} |->
        node_list[CHOOSE k \in DOMAIN node_list : hydrate_key(k) = k2]]

(* {dehydrate_key(dst): val for (dst, val) in dsts.items()} *)
dehydrate_dict(dsts) ==
    [k2 \in {dehydrate_key(k) : k \in DOMAIN dsts} |->
        dsts[CHOOSE k \in DOMAIN dsts : dehydrate_key(k) = k2]]

RECURSIVE ZipCounter(_, _)
ZipCounter(values, keys) ==
    IF values = <<>> \/ keys = <<>> THEN EmptyCounter
    ELSE LET n == IF Len(values) < Len(keys) THEN Len(values) ELSE Len(keys)
             rest == ZipCounter(SubSeq(values, 1, n - 1), SubSeq(keys, 1, n - 1))
             key == hydrate_key(keys[n].val)
         IN [k \in DOMAIN rest \cup {key} |->
                IF k = key THEN values[n].val ELSE rest[k]]

Falsy(v) == v.val = <<>>

counterify(node_list) ==
    IF Falsy(node_list) THEN EmptyCounter
    ELSE IF node_list.type = "dict"
    THEN hydrate_dict(node_list.val)
    ELSE IF node_list.val[1].type = "int"
    THEN (hydrate_key(node_list.val[2].val) :> node_list.val[1].val)
    ELSE ZipCounter(node_list.val[1].val, node_list.val[2].val)

hydrate_dataset(dataset) ==
    DictOf([i \in DOMAIN dataset |->
              [k |-> hydrate_key(dataset[i].k), v |-> counterify(dataset[i].v)]])

hydrate_nodes(data) ==
    IF data = <<>> THEN data
    ELSE IF data[1] = <<>> THEN data
    ELSE <<[statename \in DOMAIN data[1] |-> hydrate_dataset(data[1][statename])]>>

dehydrate_dataset(state) ==
    DictOf([i \in DOMAIN state |->
              [k |-> dehydrate_key(state[i].k),
               v |-> dehydrate_dict(state[i].v)]])

dehydrate_nodes(data) ==
    IF data = <<>> THEN data
    ELSE IF data[1] = <<>> THEN data
    ELSE <<[statename \in DOMAIN data[1] |-> dehydrate_dataset(data[1][statename])]>>

(* json.dump followed by json.load: every dict comes back as a dict; the   *)
(* values counterify will inspect are tagged with their JSON type.         *)
json_dataset(state) ==
    [i \in DOMAIN state |-> [k |-> state[i].k, v |-> PyDict(state[i].v)]]
json_nodes(data) ==
    IF data = <<>> THEN data
    ELSE <<[statename \in DOMAIN data[1] |-> json_dataset(data[1][statename])]>>

-----------------------------------------------------------------------------
(* State codec *)

RECURSIVE join_state_with(_, _)
join_state_with(sep, state) ==
    IF state = <<>> THEN <<>>
    ELSE IF Len(state) = 1 THEN state[1]
    ELSE state[1] \o sep \o join_state_with(sep, Tail(state))

join_state(state) == join_state_with(state_separator, state)

RECURSIVE str_replace(_, _, _)
str_replace(s, old, new) ==
    IF old = <<>>
    THEN IF s = <<>> THEN new
         ELSE new \o <<Head(s)>> \o str_replace(Tail(s), old, new)
    ELSE IF Len(s) < Len(old) THEN s
    ELSE IF SubSeq(s, 1, Len(old)) = old
    THEN new \o str_replace(SubSeq(s, Len(old) + 1, Len(s)), old, new)
    ELSE <<Head(s)>> \o str_replace(Tail(s), old, new)

-----------------------------------------------------------------------------
(* JsonStorage *)

SettingsBackward(s) ==
    /\ s # <<>>
    /\ "storage" \in DOMAIN s
    /\ "backward" \in DOMAIN s.storage
    /\ s.storage.backward

(* __init__(nodes, backward, settings); nodes is optional, backward is a   *)
(* tagged None, bool or dict.                                              *)
JsonStorage(nodesArg, backwardArg, settingsArg) ==
    [nodes |-> IF nodesArg = <<>> THEN <<>> ELSE nodesArg[1],
     backward |->
        IF backwardArg.type = "NoneType" /\ SettingsBackward(settingsArg)
        THEN <<EmptyDict>>
        ELSE IF backwardArg.type = "bool" /\ ~backwardArg.val THEN <<>>
        ELSE IF backwardArg.type = "bool" /\ backwardArg.val THEN <<EmptyDict>>
        ELSE IF backwardArg.type = "NoneType" THEN <<>>
        ELSE <<backwardArg.val>>,
     settings |-> settingsArg]

Storage__eq__(a, b) == a.settings = b.settings

DataEq(a, b) ==
    /\ DOMAIN a = DOMAIN b
    /\ \A d \in DOMAIN a : AsMap(a[d]) = AsMap(b[d])

OptDataEq(a, b) ==
    /\ (a = <<>>) = (b = <<>>)
    /\ a # <<>> => DataEq(a[1], b[1])

JsonStorage__eq__(a, b) ==
    /\ DataEq(a.nodes, b.nodes)
    /\ OptDataEq(a.backward, b.backward)
    /\ Storage__eq__(a, b)

do_replace_state_separator(data, old, new) ==
    [key \in DOMAIN data |->
        DictOf([i \in DOMAIN data[key] |->
                  [k |-> str_replace(data[key][i].k, old, new),
                   v |-> data[key][i].v]])]

(* do_get_dataset(data, key, create=True): the data afterwards *)
do_get_dataset_create(data, key) ==
    IF key \in DOMAIN data THEN data ELSE data @@ (key :> EmptyDict)

Increment(counter, target, count) ==
    [t \in DOMAIN counter \cup {target} |->
        IF t = target
        THEN (IF target \in DOMAIN counter THEN counter[target] ELSE 0) + count
        ELSE counter[t]]

(* mutant: the count is stored, not added *)
add_link_overwrite(dataset, source, target, count) ==
    LET created == IF source \in Keys(dataset) THEN dataset
                   ELSE Put(dataset, source, EmptyCounter)
    IN Put(created, source,
           [t \in DOMAIN Get(created, source) \cup {target} |->
               IF t = target THEN count ELSE Get(created, source)[t]])

add_link(dataset, source, target, count) ==
    LET created == IF source \in Keys(dataset) THEN dataset
                   ELSE Put(dataset, source, EmptyCounter)
    IN Put(created, source, Increment(Get(created, source), target, count))

-----------------------------------------------------------------------------
(* Inputs *)

Empty == <<>>                     \* the str ''
TokA == <<"a">>
Separators == {<<" ">>}
NewSeparators == {<<"a">>}
Prefixes == {"", "x"}
DatasetNames == {"d"}
ResolvedNames == {p \o d : p \in Prefixes, d \in DatasetNames}
Targets == {None, TokA}
SettingsValues == {<<>>, [storage |-> [backward |-> TRUE]]}
BackwardArgs == {PyNone, PyBool(TRUE), PyBool(FALSE)}

(* windows of two tokens: the initial window, one that follows it, and two *)
(* whose tokens contain the separator                                      *)
Contexts(sep) == {<<Empty, Empty>>, <<Empty, TokA>>, <<Empty, sep>>, <<sep, Empty>>}

Triple(d, src, dst) ==
    [arity |-> 3, dataset |-> d, iterable |-> TRUE, src |-> src, dst |-> dst]
WellFormed(sep) ==
    {Triple(d, src, dst) : d \in DatasetNames, src \in Contexts(sep), dst \in Targets}
(* a 2-tuple, and a triple whose context is an int *)
Malformed ==
    {[arity |-> 2, dataset |-> "d", iterable |-> TRUE, src |-> <<Empty, Empty>>, dst |-> None],
     [arity |-> 3, dataset |-> "d", iterable |-> FALSE, src |-> <<>>, dst |-> TokA]}
Links(sep) == WellFormed(sep) \cup Malformed
(* for ingestion alone, also the triples whose target contains the separator *)
IngestLinks(sep) ==
    Links(sep) \cup {Triple(d, src, sep) : d \in DatasetNames, src \in Contexts(sep)}

-----------------------------------------------------------------------------
(* Store: construction and ingestion *)

Init ==
    /\ \E backwardArg \in BackwardArgs, settingsArg \in SettingsValues :
          LET self == JsonStorage(<<>>, backwardArg, settingsArg)
          IN /\ nodes = self.nodes
             /\ backward = self.backward
             /\ settings = self.settings
    /\ state_separator \in Separators
    /\ ingested = <<>>
    /\ pc = "idle"
    /\ dataset_prefix = ""
    /\ op = "init"
    /\ args = <<>>
    /\ ret = NoReturn
    /\ err = "none"
    /\ window = <<>>
    /\ maxlen = 0

(* add_links(links, dataset_prefix) is entered; links is a lazy sequence,  *)
(* each loop iteration takes its next element.                             *)
AddLinksCall(prefix) ==
    /\ pc = "idle"
    /\ pc' = "add_links"
    /\ dataset_prefix' = prefix
    /\ op' = "add_links"
    /\ args' = <<>>
    /\ ret' = NoReturn
    /\ err' = "none"
    /\ UNCHANGED <<storeVars, ingested, windowVars>>

AddToBag(bag, x) ==
    [y \in DOMAIN bag \cup {x} |->
        IF y = x THEN (IF x \in DOMAIN bag THEN bag[x] ELSE 0) + 1 ELSE bag[y]]

(* mutant: the reverse context keeps the first token of the context *)
reverse_source_whole(link) == join_state(link.src \o <<link.dst>>)

(* the key of the backward link: the context after its first token, then   *)
(* the target                                                              *)
reverse_source(link) == join_state(Tail(link.src) \o <<link.dst>>)

(* one iteration of the loop of add_links *)
add_links_step(link) ==
    LET key == dataset_prefix \o link.dataset
        forward1 == do_get_dataset_create(nodes, key)
        backward1 == IF backward = <<>> THEN <<>>
                     ELSE <<do_get_dataset_create(backward[1], key)>>
        reverse == backward1 # <<>> /\ link.dst # None
        src2 == reverse_source(link)
        dst2 == Head(link.src)
        backward2 == IF reverse
                     THEN <<[backward1[1] EXCEPT ![key] = add_link(@, src2, dst2, 1)]>>
                     ELSE backward1
        forward2 == [forward1 EXCEPT ![key] = add_link(@, join_state(link.src), link.dst, 1)]
    IN IF link.arity # 3
       THEN [nodes |-> nodes, backward |-> backward, err |-> "ValueError"]
       ELSE IF ~link.iterable
       THEN [nodes |-> forward1, backward |-> backward1, err |-> "TypeError"]
       ELSE IF reverse /\ link.src = <<>>
       THEN [nodes |-> forward1, backward |-> backward1, err |-> "StopIteration"]
       ELSE [nodes |-> forward2, backward |-> backward2, err |-> "none"]

AddLinksIter(link) ==
    /\ pc = "add_links"
    /\ Total(ingested) < MaxLinks
    /\ LET r == add_links_step(link)
       IN /\ nodes' = r.nodes
          /\ backward' = r.backward
          /\ err' = r.err
          /\ pc' = IF r.err = "none" THEN "add_links" ELSE "idle"
          /\ ingested' = IF r.err = "none"
                         THEN AddToBag(ingested,
                                 [dataset |-> dataset_prefix \o link.dataset,
                                  src |-> link.src, dst |-> link.dst])
                         ELSE ingested
    /\ args' = <<>>
    /\ UNCHANGED <<settings, state_separator, dataset_prefix, op, ret, windowVars>>

AddLinksReturn ==
    /\ pc = "add_links"
    /\ pc' = "idle"
    /\ UNCHANGED <<storeVars, ingested, dataset_prefix, op, args, ret, err, windowVars>>

NextIngest ==
    \/ \E prefix \in Prefixes : AddLinksCall(prefix)
    \/ \E link \in IngestLinks(state_separator) : AddLinksIter(link)
    \/ AddLinksReturn

SpecIngest == Init /\ [][NextIngest]_vars

-----------------------------------------------------------------------------
(* Store: queries, separator migration, persistence *)

self == [nodes |-> nodes, backward |-> backward, settings |-> settings]

(* get_dataset(key) with create=False: the pair (forward, backward) *)
get_dataset(key) ==
    <<nodes[key], IF backward = <<>> THEN <<>> ELSE <<backward[1][key]>>>>

get_dataset_raises(key) ==
    \/ key \notin DOMAIN nodes
    \/ backward # <<>> /\ key \notin DOMAIN backward[1]

(* mutant: the forward map is consulted whatever the direction *)
get_links_forward(dataset, state, bwd) ==
    IF bwd /\ backward = <<>>
    THEN [ret |-> NoReturn, err |-> "ValueError"]
    ELSE LET data == dataset[1]
             key == join_state(state)
         IN IF key \in Keys(data)
            THEN LET node == Get(data, key)
                 IN [ret |-> {<<PyInt(node[w]), PyToken(w)>> : w \in DOMAIN node},
                     err |-> "none"]
            ELSE [ret |-> {}, err |-> "none"]

(* mutant: the KeyError of an unknown state is not caught *)
get_links_uncaught(dataset, state, bwd) ==
    IF bwd /\ backward = <<>>
    THEN [ret |-> NoReturn, err |-> "ValueError"]
    ELSE LET data == IF bwd THEN dataset[2][1] ELSE dataset[1]
             key == join_state(state)
         IN IF key \in Keys(data)
            THEN LET node == Get(data, key)
                 IN [ret |-> {<<PyInt(node[w]), PyToken(w)>> : w \in DOMAIN node},
                     err |-> "none"]
            ELSE [ret |-> NoReturn, err |-> "KeyError"]

(* mutant: self.backward is not checked, None is subscripted *)
get_links_unchecked(dataset, state, bwd) ==
    IF bwd /\ dataset[2] = <<>>
    THEN [ret |-> NoReturn, err |-> "TypeError"]
    ELSE LET data == IF bwd THEN dataset[2][1] ELSE dataset[1]
             key == join_state(state)
         IN IF key \in Keys(data)
            THEN LET node == Get(data, key)
                 IN [ret |-> {<<PyInt(node[w]), PyToken(w)>> : w \in DOMAIN node},
                     err |-> "none"]
            ELSE [ret |-> {}, err |-> "none"]

(* get_links(dataset, state, backward); dataset is the pair of get_dataset. *)
(* The returned list has one tuple per item of the Counter; it is kept as  *)
(* the set of its tuples.                                                  *)
get_links(dataset, state, bwd) ==
    IF bwd /\ backward = <<>>
    THEN [ret |-> NoReturn, err |-> "ValueError"]
    ELSE LET data == IF bwd THEN dataset[2][1] ELSE dataset[1]
             key == join_state(state)
         IN IF key \in Keys(data)
            THEN LET node == Get(data, key)
                 IN [ret |-> {<<PyInt(node[w]), PyToken(w)>> : w \in DOMAIN node},
                     err |-> "none"]
            ELSE [ret |-> {}, err |-> "none"]

GetLinks(name, state, bwd) ==
    /\ pc = "idle"
    /\ op' = "get_links"
    /\ args' = [dataset |-> name, state |-> state, backward |-> bwd]
    /\ IF get_dataset_raises(name)
       THEN /\ ret' = NoReturn
            /\ err' = "KeyError"
       ELSE LET r == get_links(get_dataset(name), state, bwd)
            IN /\ ret' = r.ret
               /\ err' = r.err
    /\ UNCHANGED <<storeVars, ingested, pc, dataset_prefix, windowVars>>

(* mutant: only self.nodes is rewritten *)
replace_state_separator_nodes_only(old_separator, new_separator) ==
    [nodes |-> do_replace_state_separator(nodes, old_separator, new_separator),
     backward |-> backward]

replace_state_separator(old_separator, new_separator) ==
    [nodes |-> do_replace_state_separator(nodes, old_separator, new_separator),
     backward |-> IF backward # <<>>
                  THEN <<do_replace_state_separator(backward[1], old_separator, new_separator)>>
                  ELSE backward]

ReplaceStateSeparator(old, new) ==
    /\ pc = "idle"
    /\ LET r == replace_state_separator(old, new)
       IN /\ nodes' = r.nodes
          /\ backward' = r.backward
    /\ op' = "replace_state_separator"
    /\ args' = [old |-> old, new |-> new]
    /\ ret' = NoReturn
    /\ err' = "none"
    /\ UNCHANGED <<settings, state_separator, ingested, pc, dataset_prefix, windowVars>>

(* the document do_save writes, as json.load reads it back *)
do_save ==
    [settings |-> settings,
     nodes |-> json_nodes(dehydrate_nodes(<<nodes>>)),
     backward |-> json_nodes(dehydrate_nodes(backward))]

DoSave ==
    /\ pc = "idle"
    /\ op' = "do_save"
    /\ args' = <<>>
    /\ ret' = do_save
    /\ err' = "none"
    /\ UNCHANGED <<storeVars, ingested, pc, dataset_prefix, windowVars>>

load(data) ==
    LET hydrated == hydrate_nodes(data.nodes)
        back == hydrate_nodes(data.backward)
    IN JsonStorage(hydrated,
                   IF back = <<>> THEN PyNone ELSE PyDict(back[1]),
                   data.settings)

(* load of the document the preceding do_save wrote *)
Load ==
    /\ pc = "idle"
    /\ op = "do_save"
    /\ op' = "load"
    /\ args' = ret
    /\ ret' = load(ret)
    /\ err' = "none"
    /\ UNCHANGED <<storeVars, ingested, pc, dataset_prefix, windowVars>>

QueryStates == {<<Empty, Empty>>, <<Empty, TokA>>}

Next ==
    \/ \E prefix \in Prefixes : AddLinksCall(prefix)
    \/ \E link \in Links(state_separator) : AddLinksIter(link)
    \/ AddLinksReturn
    \/ \E name \in ResolvedNames, state \in QueryStates, bwd \in BOOLEAN :
          GetLinks(name, state, bwd)
    \/ DoSave
    \/ Load

Spec == Init /\ [][Next]_vars

NextMigrate ==
    \/ \E prefix \in Prefixes : AddLinksCall(prefix)
    \/ \E link \in Links(state_separator) : AddLinksIter(link)
    \/ AddLinksReturn
    \/ \E new \in NewSeparators : ReplaceStateSeparator(state_separator, new)

SpecMigrate == Init /\ [][NextMigrate]_vars

-----------------------------------------------------------------------------
(* Properties of ingestion (SpecIngest) *)

Weight(data, d, k, t) ==
    IF d \in DOMAIN data /\ k \in Keys(data[d]) /\ t \in DOMAIN Get(data[d], k)
    THEN Get(data[d], k)[t]
    ELSE 0

Ingested(d, src, dst) ==
    LET x == [dataset |-> d, src |-> src, dst |-> dst]
    IN IF x \in DOMAIN ingested THEN ingested[x] ELSE 0

(* number of ingested triples of dataset d and target dst whose context     *)
(* encodes to key                                                           *)
IngestedAs(d, key, dst) ==
    LET S == {x \in DOMAIN ingested :
                x.dataset = d /\ x.dst = dst /\ join_state(x.src) = key}
    IN SumOver(ingested, S)

RECURSIVE Contains(_, _)
Contains(s, sub) ==
    IF Len(s) < Len(sub) THEN FALSE
    ELSE IF SubSeq(s, 1, Len(sub)) = sub THEN TRUE
    ELSE Contains(Tail(s), sub)

(* the separator is one character and occurs in no context token ingested  *)
(* into d                                                                   *)
SeparatorFree(d) ==
    /\ Len(state_separator) = 1
    /\ \A x \in DOMAIN ingested :
          x.dataset = d =>
             \A i \in DOMAIN x.src : ~Contains(x.src[i], state_separator)

ReverseKey(x) == join_state(Tail(x.src) \o <<x.dst>>)

Symmetric(d) ==
    /\ \A x \in DOMAIN ingested :
          x.dataset = d /\ x.dst # None =>
             Weight(backward[1], d, ReverseKey(x), Head(x.src))
                = Weight(nodes, d, join_state(x.src), x.dst)
    /\ d \in DOMAIN backward[1] =>
          \A k \in Keys(backward[1][d]) : \A t \in DOMAIN Get(backward[1][d], k) :
             \E x \in DOMAIN ingested :
                /\ x.dataset = d /\ x.dst # None
                /\ ReverseKey(x) = k /\ Head(x.src) = t
                /\ Weight(nodes, d, join_state(x.src), x.dst) = Get(backward[1][d], k)[t]

(* C2, as stated: with backward support, for every link (context, target)   *)
(* with non-null target ever added,                                         *)
(* backward[encode(context[1:] + [target])][context[0]] equals              *)
(* forward[encode(context)][target], and every backward entry has such a    *)
(* forward entry of the same weight.                                        *)
C2_Symmetry ==
    backward # <<>> => \A d \in ResolvedNames : Symmetric(d)

(* C2, amended: the symmetry holds in every dataset into which no context   *)
(* token containing the (one-character) separator was ingested.             *)
C2_SymmetrySeparatorFree ==
    backward # <<>> => \A d \in ResolvedNames : SeparatorFree(d) => Symmetric(d)

C2_Witness ==
    /\ backward # <<>>
    /\ \E x \in DOMAIN ingested :
          /\ SeparatorFree(x.dataset)
          /\ x.dst # None
          /\ x.src = <<Empty, TokA>>
          /\ Weight(backward[1], x.dataset, ReverseKey(x), Head(x.src)) = 2
          /\ Weight(nodes, x.dataset, join_state(x.src), x.dst) = 2

(* C3, as stated: forward[d][encode(context)][target] is the number of      *)
(* triples (d, context, target) ingested so far, every stored count is      *)
(* positive and a pair never ingested has no entry.                         *)
C3_CountPerTriple ==
    /\ \A d \in ResolvedNames, src \in Contexts(state_separator),
          dst \in Targets \cup {state_separator} :
          Weight(nodes, d, join_state(src), dst) = Ingested(d, src, dst)
    /\ \A d \in DOMAIN nodes : \A k \in Keys(nodes[d]) :
          \A t \in DOMAIN Get(nodes[d], k) : Get(nodes[d], k)[t] >= 1

CountsPerKey ==
    /\ \A d \in DOMAIN nodes : \A k \in Keys(nodes[d]) :
          \A t \in DOMAIN Get(nodes[d], k) :
             /\ Get(nodes[d], k)[t] >= 1
             /\ Get(nodes[d], k)[t] = IngestedAs(d, k, t)
    /\ \A x \in DOMAIN ingested :
          Weight(nodes, x.dataset, join_state(x.src), x.dst)
             = IngestedAs(x.dataset, join_state(x.src), x.dst)

OnlyAdded ==
    \A d \in DOMAIN nodes : \A k \in Keys(nodes[d]) :
       \A t \in DOMAIN Get(nodes[d], k) :
          Weight(nodes', d, k, t) >= Get(nodes[d], k)[t]

(* C3, amended: forward[d][encode(context)][target] is the number of        *)
(* ingested triples of dataset d and that target whose context encodes to   *)
(* the same key; every stored count is positive, a pair never ingested has  *)
(* no entry, and no step of add_links decreases or removes an entry.        *)
C3_CountPerKey == []CountsPerKey /\ [][OnlyAdded]_vars

C3_Witness ==
    \E d \in ResolvedNames :
       /\ Ingested(d, <<Empty, state_separator>>, TokA) = 1
       /\ Ingested(d, <<state_separator, Empty>>, TokA) = 1
       /\ Weight(nodes, d, join_state(<<Empty, state_separator>>), TokA) = 2

(* C8: an iteration of add_links that fails on a malformed triple leaves    *)
(* the set of datasets and the forward and backward maps as the earlier     *)
(* triples made them.                                                       *)
C8_FailureLeavesStore ==
    [][(pc = "add_links" /\ err' # "none") =>
          (nodes' = nodes /\ backward' = backward)]_vars

-----------------------------------------------------------------------------
(* Properties of queries and persistence (Spec) *)

(* C1: after do_save and load of the saved document, the loaded store       *)
(* equals the store: equal nodes, equal backward (or both None), equal      *)
(* settings.                                                                *)
C1_RoundTrip == op = "load" => JsonStorage__eq__(ret, self)

(* the map get_links consults, and the Counter it finds there *)
Consulted(bwd) == IF bwd THEN backward[1] ELSE nodes
Recorded(name, state, bwd) ==
    IF join_state(state) \in Keys(Consulted(bwd)[name])
    THEN Get(Consulted(bwd)[name], join_state(state))
    ELSE EmptyCounter
Answered ==
    /\ op = "get_links"
    /\ err = "none"

(* C4, as stated: successors returns (token, weight) pairs, token first,    *)
(* one per successor recorded for the encoded state in the selected map.    *)
C4_TokenFirst ==
    Answered =>
       LET node == Recorded(args.dataset, args.state, args.backward)
       IN ret = {<<PyToken(t), PyInt(node[t])>> : t \in DOMAIN node}

(* C4, amended: successors returns (weight, token) pairs, weight first and  *)
(* token second, exactly one per successor recorded for the encoded state   *)
(* in the selected map, the weight being the stored count; after            *)
(* add_links([(d, ['', ''], a), (d, ['', a], a)]) the successors of         *)
(* ['', ''] and of ['', a] are both [(1, a)].                               *)
C4_WeightFirst ==
    Answered =>
       LET node == Recorded(args.dataset, args.state, args.backward)
       IN /\ ret = {<<PyInt(node[t]), PyToken(t)>> : t \in DOMAIN node}
          /\ Cardinality(ret) = Cardinality(DOMAIN node)
          /\ (/\ ~args.backward
              /\ DOMAIN ingested =
                    {[dataset |-> args.dataset, src |-> <<Empty, Empty>>, dst |-> TokA],
                     [dataset |-> args.dataset, src |-> <<Empty, TokA>>, dst |-> TokA]}
              /\ \A x \in DOMAIN ingested : ingested[x] = 1)
             => ret = {<<PyInt(1), PyStr(TokA)>>}

C4_Witness ==
    /\ Answered
    /\ ~args.backward
    /\ args.state = <<Empty, TokA>>
    /\ Ingested(args.dataset, <<Empty, Empty>>, TokA) = 1
    /\ Ingested(args.dataset, <<Empty, TokA>>, TokA) = 1
    /\ ret = {<<PyInt(1), PyStr(TokA)>>}

QueryOf(name, state, bwd) ==
    /\ op' = "get_links"
    /\ args' = [dataset |-> name, state |-> state, backward |-> bwd]
    /\ name \in DOMAIN nodes

(* C5: successors of a state of an existing dataset whose encoded key is    *)
(* absent from the consulted map is the empty list, raises nothing and      *)
(* leaves the store unchanged.                                              *)
C5_UnknownStateIsEmpty ==
    [][\A name \in ResolvedNames, state \in QueryStates, bwd \in BOOLEAN :
          (/\ QueryOf(name, state, bwd)
           /\ bwd => backward # <<>>
           /\ join_state(state) \notin Keys(Consulted(bwd)[name]))
          => (/\ err' = "none"
              /\ ret' = {}
              /\ UNCHANGED storeVars)]_vars

C5_Witness ==
    /\ Answered
    /\ args.dataset \in DOMAIN nodes
    /\ nodes[args.dataset] # EmptyDict
    /\ join_state(args.state) \notin Keys(Consulted(args.backward)[args.dataset])
    /\ ret = {}

(* C6: successors with backward=true raises ValueError ("no backward        *)
(* nodes") on a store whose backward map is None, for every dataset and     *)
(* state, and leaves the store unchanged; on a store with a backward map    *)
(* it does not raise it.                                                    *)
C6_BackwardUnsupported ==
    [][\A name \in ResolvedNames, state \in QueryStates :
          QueryOf(name, state, TRUE)
          => (/\ (err' = "ValueError") = (backward = <<>>)
              /\ UNCHANGED storeVars)]_vars

C6_Witness ==
    /\ op = "get_links"
    /\ args.backward
    /\ backward = <<>>
    /\ err = "ValueError"
    /\ args.dataset \in DOMAIN nodes
    /\ join_state(args.state) \in Keys(nodes[args.dataset])

-----------------------------------------------------------------------------
(* Properties of the separator migration (SpecMigrate) *)

RECURSIVE TotalWeight(_)
TotalWeight(dataset) ==
    IF dataset = <<>> THEN 0
    ELSE Total(Head(dataset).v) + TotalWeight(Tail(dataset))

Injective(dataset, old, new) ==
    \A i, j \in DOMAIN dataset :
       str_replace(dataset[i].k, old, new) = str_replace(dataset[j].k, old, new)
          => i = j

(* the last entry of dataset whose key is rewritten to k2 *)
LastSource(dataset, old, new, k2) ==
    CHOOSE i \in DOMAIN dataset :
       /\ str_replace(dataset[i].k, old, new) = k2
       /\ \A j \in DOMAIN dataset :
             str_replace(dataset[j].k, old, new) = k2 => j <= i

RewrittenExactly(before, after, old, new) ==
    /\ DOMAIN after = DOMAIN before
    /\ \A d \in DOMAIN before :
          /\ Keys(after[d]) = {str_replace(k, old, new) : k \in Keys(before[d])}
          /\ \A k \in Keys(before[d]) :
                Get(after[d], str_replace(k, old, new)) = Get(before[d], k)
          /\ Len(after[d]) = Len(before[d])
          /\ TotalWeight(after[d]) = TotalWeight(before[d])

RewrittenMerging(before, after, old, new) ==
    /\ DOMAIN after = DOMAIN before
    /\ \A d \in DOMAIN before :
          /\ Keys(after[d]) = {str_replace(k, old, new) : k \in Keys(before[d])}
          /\ \A k2 \in Keys(after[d]) :
                Get(after[d], k2) = before[d][LastSource(before[d], old, new, k2)].v
          /\ Len(after[d]) <= Len(before[d])
          /\ TotalWeight(after[d]) <= TotalWeight(before[d])
          /\ Injective(before[d], old, new) =>
                /\ Len(after[d]) = Len(before[d])
                /\ TotalWeight(after[d]) = TotalWeight(before[d])

MigratedExactly ==
    op' = "replace_state_separator" =>
       /\ RewrittenExactly(nodes, nodes', args'.old, args'.new)
       /\ (backward = <<>>) = (backward' = <<>>)
       /\ backward # <<>> =>
             RewrittenExactly(backward[1], backward'[1], args'.old, args'.new)

MigratedMerging ==
    op' = "replace_state_separator" =>
       /\ RewrittenMerging(nodes, nodes', args'.old, args'.new)
       /\ (backward = <<>>) = (backward' = <<>>)
       /\ backward # <<>> =>
             RewrittenMerging(backward[1], backward'[1], args'.old, args'.new)

(* C10, as stated: every key k of every dataset of the forward and the      *)
(* backward map becomes k with old replaced by new and carries the          *)
(* weighted-multiset of the key it came from; the number of states and the  *)
(* total weight of every dataset are the same before and after.             *)
C10_RewriteKeepsStates == [][MigratedExactly]_vars

(* C10, amended: the keys of every dataset become the rewritten keys; a     *)
(* rewritten key carries the weighted-multiset of the last key (in the      *)
(* dataset's order) that is rewritten to it; the number of states and the   *)
(* total weight of a dataset never grow, and are the same when no two of    *)
(* its keys are rewritten to the same key.                                  *)
C10_RewriteMergesStates == [][MigratedMerging]_vars

C10_Witness ==
    /\ op = "replace_state_separator"
    /\ backward # <<>>
    /\ \E d \in DOMAIN nodes :
          /\ Len(nodes[d]) = 2
          /\ Len(backward[1][d]) = 2
          /\ \A k \in Keys(nodes[d]) \cup Keys(backward[1][d]) :
                Contains(k, args.new) /\ ~Contains(k, args.old)

-----------------------------------------------------------------------------
(* Context windows (SpecWindow) *)

TokB == <<"b">>
PriorTokens == {TokA, TokB}
Sizes == 0 .. MaxSize
PriorStates == UNION {[1 .. n -> PriorTokens] : n \in 0 .. MaxPrior}
FollowedLinks == {<<PyInt(1), PyToken(t)>> : t \in {TokA, TokB, None}}

(* mutant: append without maxlen *)
deque_append_unbounded(d, n, x) == Append(d, x)

(* deque.append / deque.appendleft on a deque of the given maxlen *)
deque_append(d, n, x) ==
    IF n = 0 THEN d
    ELSE IF Len(d) = n THEN Append(Tail(d), x)
    ELSE Append(d, x)

deque_appendleft(d, n, x) ==
    IF n = 0 THEN d
    ELSE IF Len(d) = n THEN <<x>> \o SubSeq(d, 1, n - 1)
    ELSE <<x>> \o d

RECURSIVE deque(_, _)
deque(iterable, n) ==
    IF iterable = <<>> THEN <<>>
    ELSE deque_append(deque(SubSeq(iterable, 1, Len(iterable) - 1), n), n,
                      iterable[Len(iterable)])

get_state(state, size) == deque([i \in 1 .. size |-> Empty] \o state, size)

follow_link(link, state, n, bwd) ==
    LET value == link[2].val
    IN IF bwd THEN deque_appendleft(state, n, value)
       ELSE deque_append(state, n, value)

InitWindow ==
    /\ nodes = <<>>
    /\ backward = <<>>
    /\ settings = <<>>
    /\ state_separator \in Separators
    /\ ingested = <<>>
    /\ pc = "idle"
    /\ dataset_prefix = ""
    /\ op = "init"
    /\ args = <<>>
    /\ ret = NoReturn
    /\ err = "none"
    /\ window = <<>>
    /\ maxlen = 0

GetState(state, size) ==
    /\ op' = "get_state"
    /\ args' = [state |-> state, size |-> size]
    /\ window' = get_state(state, size)
    /\ maxlen' = size
    /\ ret' = window'
    /\ UNCHANGED <<storeVars, ingested, pc, dataset_prefix, err>>

FollowLink(link, bwd) ==
    /\ op # "init"
    /\ op' = "follow_link"
    /\ args' = [link |-> link, backward |-> bwd]
    /\ window' = follow_link(link, window, maxlen, bwd)
    /\ ret' = window'
    /\ UNCHANGED <<storeVars, ingested, pc, dataset_prefix, err, maxlen>>

NextWindow ==
    \/ \E state \in PriorStates, size \in Sizes : GetState(state, size)
    \/ \E link \in FollowedLinks, bwd \in BOOLEAN : FollowLink(link, bwd)

SpecWindow == InitWindow /\ [][NextWindow]_vars

WindowOf ==
    LET prior == args'.state
        n == args'.size
    IN /\ Len(window') = n
       /\ \A i \in 1 .. n :
             window'[i] = IF i <= n - Len(prior) THEN Empty
                          ELSE prior[Len(prior) - n + i]

Advanced ==
    LET token == args'.link[2].val
        n == Len(window)
    IN /\ Len(window') = n
       /\ n = maxlen
       /\ ret' = window'
       /\ n >= 1 =>
             IF args'.backward
             THEN window' = <<token>> \o SubSeq(window, 1, n - 1)
             ELSE window' = SubSeq(window, 2, n) \o <<token>>

(* C7: get_state(prior, N) is the window of length N holding the last N     *)
(* prior tokens, left-padded with ''; follow_link keeps the length N of     *)
(* such a window, appends the token of the link on the right (forward) or   *)
(* prepends it on the left (backward), drops one element at the other end   *)
(* and returns the window.                                                  *)
C7_AdvanceKeepsLength ==
    [][/\ op' = "get_state" => WindowOf
       /\ op' = "follow_link" => Advanced]_vars

C7_Witness ==
    /\ op = "follow_link"
    /\ args.backward
    /\ maxlen = 2
    /\ window = <<TokB, Empty>>

-----------------------------------------------------------------------------
(* Hydration of the per-state encodings (SpecHydrate) *)

WireTokens == {Empty, TokA, NONE_VALUE}
WireKeys == {<<" ">>, NONE_VALUE}

(* the weighted-multisets over the wire tokens *)
Multisets == UNION {[S -> 1 .. MaxCount] : S \in SUBSET WireTokens}

Orders(S) ==
    {o \in [1 .. Cardinality(S) -> S] : \A i, j \in DOMAIN o : o[i] = o[j] => i = j}

(* (a) a plain token -> count mapping *)
AsMapping(D) == PyDict(D)
(* (b) the parallel arrays (counts, tokens), the tokens in the order o *)
AsArrays(D, o) ==
    PyList(<<PyList([i \in DOMAIN o |-> PyInt(D[o[i]])]),
             PyList([i \in DOMAIN o |-> PyStr(o[i])])>>)
(* (c) the single pair (count, token) of a singleton *)
AsPair(D) ==
    LET t == CHOOSE x \in DOMAIN D : TRUE
    IN PyList(<<PyInt(D[t]), PyStr(t)>>)

Encodings(D) ==
    {[form |-> "mapping", multiset |-> D, wire |-> AsMapping(D)]}
    \cup {[form |-> "arrays", multiset |-> D, wire |-> AsArrays(D, o)] : o \in Orders(DOMAIN D)}
    \cup (IF Cardinality(DOMAIN D) = 1
          THEN {[form |-> "pair", multiset |-> D, wire |-> AsPair(D)]}
          ELSE {})

InitHydrate ==
    /\ nodes = <<>>
    /\ backward = <<>>
    /\ settings = <<>>
    /\ state_separator \in Separators
    /\ ingested = <<>>
    /\ pc = "idle"
    /\ dataset_prefix = ""
    /\ op = "input"
    /\ \E D \in Multisets : args \in Encodings(D)
    /\ ret = NoReturn
    /\ err = "none"
    /\ window = <<>>
    /\ maxlen = 0

Counterify ==
    /\ op = "input"
    /\ op' = "counterify"
    /\ ret' = counterify(args.wire)
    /\ UNCHANGED <<storeVars, ingested, pc, dataset_prefix, args, err, windowVars>>

(* hydrate_nodes of the nodes {"d": {key: encoding}} *)
HydrateNodes(key) ==
    /\ op = "input"
    /\ op' = "hydrate_nodes"
    /\ ret' = hydrate_nodes(<<[d \in DatasetNames |-> <<[k |-> key, v |-> args.wire]>>]>>)
    /\ UNCHANGED <<storeVars, ingested, pc, dataset_prefix, args, err, windowVars>>

NextHydrate ==
    \/ Counterify
    \/ \E key \in WireKeys : HydrateNodes(key)

SpecHydrate == InitHydrate /\ [][NextHydrate]_vars

(* D with the sentinel string replaced by the null token *)
Canonical(D) ==
    [t \in {IF k = <<NUL, NUL>> THEN None ELSE k : k \in DOMAIN D} |->
        IF t = None THEN D[<<NUL, NUL>>] ELSE D[t]]

(* C9: the mapping, the parallel arrays and (for a singleton) the single    *)
(* pair that encode a weighted-multiset D all hydrate to D with the         *)
(* sentinel string replaced by the null token, by counterify and under      *)
(* every state of hydrate_nodes.                                            *)
C9_HydrateNormalizes ==
    /\ op = "counterify" => ret = Canonical(args.multiset)
    /\ op = "hydrate_nodes" =>
          \A d \in DOMAIN ret[1] : \A i \in DOMAIN ret[1][d] :
             ret[1][d][i].v = Canonical(args.multiset)

C9_Witness ==
    /\ op = "counterify"
    /\ args.form = "arrays"
    /\ DOMAIN args.multiset = WireTokens
    /\ ret[None] = 2
    /\ ret[TokA] = 1

====
